---- MODULE Spec2Model ----
(***************************************************************************)
(* A state-machine model of OpenKapitza/functions.py.                      *)
(*                                                                         *)
(* Floating-point numbers are modelled as fixed-point numbers: an integer  *)
(* n stands for n / Scale.  Every product and quotient rounds to the       *)
(* nearest unit, a magnitude above MaxAbs overflows to a non-finite value, *)
(* and a non-finite value (inf or nan) is absorbing.  Square complex       *)
(* blocks are taken diagonal and stored as the sequence of their diagonal, *)
(* so that @, inv and .conj().T act entry by entry.  A Python dict is the  *)
(* sequence of its items in insertion order.                               *)
(***************************************************************************)
EXTENDS Integers, Sequences, FiniteSets, TLC

(* ------------------------------ bounds -------------------------------- *)
\* fixed-point resolution: one unit is 1 / Scale
Scale == 100
\* largest finite magnitude, in units
MaxAbs == 10000
\* number_atom_unitcell and block_size of the surface_green_func call
number_atom_unitcell == 1
block_size == 1
\* largest omega_num of a sweep
MaxOmegaNum == 2
\* the pass counter n_pass saturates here
PassCap == 3

(* ------------------------- program constants -------------------------- *)
\* the tolerance 1e-6 of the convergence test, as 1 / TolInv
TolInv == 1000000
\* the iteration cap of the convergence test
IterCap == 5000

(* ------------------------- complex arithmetic ------------------------- *)
Abs(n) == IF n < 0 THEN -n ELSE n

\* n / d rounded to the nearest integer, d > 0
RoundDiv(n, d) ==
    IF n >= 0 THEN (2 * n + d) \div (2 * d) ELSE -((2 * (-n) + d) \div (2 * d))

NaN == [re |-> 0, im |-> 0, fin |-> FALSE]

C(r, i) ==
    IF Abs(r) > MaxAbs \/ Abs(i) > MaxAbs THEN NaN
    ELSE [re |-> r, im |-> i, fin |-> TRUE]

CAdd(x, y) == IF x.fin /\ y.fin THEN C(x.re + y.re, x.im + y.im) ELSE NaN

CSub(x, y) == IF x.fin /\ y.fin THEN C(x.re - y.re, x.im - y.im) ELSE NaN

CMul(x, y) ==
    IF x.fin /\ y.fin
    THEN C(RoundDiv(x.re * y.re - x.im * y.im, Scale),
           RoundDiv(x.re * y.im + x.im * y.re, Scale))
    ELSE NaN

CConj(x) == IF x.fin THEN C(x.re, -x.im) ELSE NaN

\* 1 / x; a zero pivot yields a non-finite value, no exception
CInv(x) ==
    IF x.fin /\ (x.re # 0 \/ x.im # 0)
    THEN LET m == x.re * x.re + x.im * x.im
         IN  C(RoundDiv(x.re * Scale * Scale, m), RoundDiv((-x.im) * Scale * Scale, m))
    ELSE NaN

(* --------------------- diagonal complex matrices ---------------------- *)
Dim == 3 * number_atom_unitcell * block_size

\* the diagonal f(1), ..., f(Dim), built entry by entry
Vec(f(_)) ==
    LET b[n \in 0..Dim] == IF n = 0 THEN <<>> ELSE Append(b[n - 1], f(n))
    IN  b[Dim]

\* Op applied entry by entry.  Each argument is bound once (a \in {A}), so that
\* it is evaluated a single time however often its entries are read.
Map1(Op(_), A) ==
    CHOOSE M \in {Vec(LAMBDA i : Op(a[i])) : a \in {A}} : TRUE

Map2(Op(_, _), A, B) ==
    CHOOSE M \in {Vec(LAMBDA i : Op(a[i], b[i])) : a \in {A}, b \in {B}} : TRUE

Eye == Vec(LAMBDA i : C(Scale, 0))

MatAdd(A, B) == Map2(CAdd, A, B)

MatSub(A, B) == Map2(CSub, A, B)

\* A @ B
MatMul(A, B) == Map2(CMul, A, B)

\* jnp.linalg.inv(A)
MatInv(A) == Map1(CInv, A)

\* A.conj().T
ConjT(A) == Map1(CConj, A)

\* c * A for a scalar c
MatScale(c, A) == Map2(CMul, Vec(LAMBDA i : c), A)

\* np.linalg.norm(A.real - B.real) < 1e-6.  A non-finite entry makes the
\* norm non-finite, and the comparison false.
NormBelowTol(A, B) ==
    /\ \A i \in 1..Dim : A[i].fin /\ B[i].fin
    /\ \A i \in 1..Dim : Abs(A[i].re - B[i].re) <= (Scale - 1) \div TolInv
    /\ LET sq[i \in 0..Dim] ==
               IF i = 0 THEN 0
               ELSE sq[i - 1] + ((A[i].re - B[i].re) * TolInv) * ((A[i].re - B[i].re) * TolInv)
       IN  sq[Dim] < Scale * Scale

(* ------------------------------- dicts -------------------------------- *)
Item(k, v) == [key |-> k, val |-> v]

Keys(d) == {d[n].key : n \in 1..Len(d)}

HasKey(d, k) == k \in Keys(d)

Get(d, k) == (CHOOSE n \in 1..Len(d) : d[n].key = k)

Lookup(d, k) == d[Get(d, k)].val

\* d[k] = v: an existing key keeps its position
DictSet(d, k, v) ==
    IF HasKey(d, k) THEN [d EXCEPT ![Get(d, k)] = Item(k, v)]
    ELSE Append(d, Item(k, v))

Min(a, b) == IF a < b THEN a ELSE b

ZipLen(a, b) == Min(Len(a), Len(b))

(* ------------------- inputs of surface_green_func --------------------- *)
\* a record of a FourierBlockSet (its 'wavevector' is not read by the solver)
Rec(h, t) == [Hsn_fourier |-> h, Hopping_fourier |-> t]

Diag(r, i) == Vec(LAMBDA n : C(r, i))

\* diag(1, 2, 3, 1, 2, 3, ...) + shift
Ramp(shift) == Vec(LAMBDA n : C((((n - 1) % 3) + 1 + shift) * Scale, 0))

\* the lead materials the inputs are drawn from: the bulk and the surface
\* record of each wavevector index
Materials == {"decoupled", "coupled"}

BulkRec(m, k) ==
    CASE m = "decoupled" -> Rec(Ramp(k), Diag(0, 0))
      [] m = "coupled"   -> Rec(Ramp(k), Diag(Scale, 0))

SurfRec(m, k) ==
    CASE m = "decoupled" -> Rec(Ramp(k), Diag(0, 0))
      [] m = "coupled"   -> Rec(Ramp(k), Diag(k * Scale, Scale))

\* insertion orders of the input dicts
ItemOrders == {<<0, 1>>, <<1, 0>>}

BulkDict(m, ord) == [n \in 1..Len(ord) |-> Item(ord[n], BulkRec(m, ord[n]))]
SurfDict(m, ord) == [n \in 1..Len(ord) |-> Item(ord[n], SurfRec(m, ord[n]))]

OmegaEnds == {0, 2 * Scale}
Deltas == {0, Scale \div 4}

\* np.linspace(omega_min, omega_max, omega_num, endpoint=True)
Linspace(lo, hi, num) ==
    [n \in 1..num |->
        IF num = 1 THEN lo ELSE lo + RoundDiv((n - 1) * (hi - lo), num - 1)]

(* ------------------------------- state -------------------------------- *)
VARIABLES
    fn,                  \* the function this run calls
    \* surface_green_func: arguments
    left_hsn_bulk, left_hsn_surface, right_hsn_surface, right_hsn_bulk,
    omega, delta,
    \* surface_green_func: position
    pc,                  \* "right_e", "left_e", "stored", "returned"
    oi,                  \* index in omega of the frequency being evaluated
    pos,                 \* position in the zipped items of the running map
    \* decimation_iteration: locals
    right_e_surface, left_e_surface,
    \* iter_func: locals
    ipc,                 \* "idle", "body", "test", "exit"
    e_surface, deepcopy_e_surface, e, alpha, beta, io,
    \* surface_green_func: result
    output_dict,
    \* history: passes of the running loop, and the keys of the two items each
    \* evaluated point of the running frequency was computed from
    n_pass, pairing,
    \* read_hessian: the matrix loaded from the file, the matrix returned, the
    \* matrix the first call returned, and the number of calls
    hessian_data_file, hessian, hessian_once, n_reads,
    \* mitigate_periodic_effect: arguments (the Hessian is masked in place),
    \* result
    mpe_args, mpe_hessian, mpe_return,
    \* matrix_decomposition: arguments, result
    md_args, Hsn

greenArgs == <<left_hsn_bulk, left_hsn_surface, right_hsn_surface, right_hsn_bulk,
               omega, delta>>
iterVars == <<e_surface, deepcopy_e_surface, e, alpha, beta, io, n_pass>>
greenVars == <<greenArgs, pc, oi, pos, right_e_surface, left_e_surface, ipc,
               iterVars, output_dict, pairing>>

rhVars == <<hessian_data_file, hessian, hessian_once, n_reads>>
mpeVars == <<mpe_args, mpe_hessian, mpe_return>>
mdVars == <<md_args, Hsn>>

vars == <<fn, greenVars, rhVars, mpeVars, mdVars>>

\* the value of a variable of a function that is not the one called
None == <<>>

(* ---------------------------- read_hessian --------------------------- *)
\* real matrices are tuples of rows, of entries in units
MaxN == 2
HessianVals == {-1, 0, 2}

Order(A) == Len(A)

RealMat(n, f(_, _)) ==
    LET row(i) == LET b[j \in 0..n] == IF j = 0 THEN <<>> ELSE Append(b[j - 1], f(i, j))
                  IN  b[n]
        rows[i \in 0..n] == IF i = 0 THEN <<>> ELSE Append(rows[i - 1], row(i))
    IN  rows[n]

\* np.triu(A, k): the entries on and above the k-th diagonal, zero elsewhere
Triu(A, k) == RealMat(Order(A), LAMBDA i, j : IF j - i >= k THEN A[i][j] ELSE 0)

\* np.tril(A, k): the entries on and below the k-th diagonal, zero elsewhere
Tril(A, k) == RealMat(Order(A), LAMBDA i, j : IF j - i <= k THEN A[i][j] ELSE 0)

Transpose(A) == RealMat(Order(A), LAMBDA i, j : A[j][i])

RealAdd(A, B) == RealMat(Order(A), LAMBDA i, j : A[i][j] + B[i][j])

\* A / 2, each quotient rounded to the nearest unit
Halve(A) == RealMat(Order(A), LAMBDA i, j : RoundDiv(A[i][j], 2))

\* read_hessian with the diagonal mirrored too: np.triu(hessian_symmetric).T
\* instead of np.triu(hessian_symmetric, k=1).T
Symmetrize_MirrorDiagonal(data) ==
    LET hessian_symmetric == Halve(RealAdd(Triu(data, 0), Transpose(Tril(data, 0))))
    IN  RealAdd(Triu(hessian_symmetric, 0), Transpose(Triu(hessian_symmetric, 0)))

\* lines 34-35 of read_hessian
Symmetrize(data) ==
    LET hessian_symmetric == Halve(RealAdd(Triu(data, 0), Transpose(Tril(data, 0))))
    IN  RealAdd(Triu(hessian_symmetric, 0), Transpose(Triu(hessian_symmetric, 1)))

IdleReadHessian ==
    hessian_data_file = None /\ hessian = None /\ hessian_once = None /\ n_reads = 0

IdleMitigate == mpe_args = None /\ mpe_hessian = None /\ mpe_return = None

IdleDecomposition == md_args = None /\ Hsn = None

IdleGreen ==
    /\ left_hsn_bulk = None /\ left_hsn_surface = None
    /\ right_hsn_surface = None /\ right_hsn_bulk = None
    /\ omega = None /\ delta = 0
    /\ pc = "none" /\ oi = 0 /\ pos = 0
    /\ right_e_surface = None /\ left_e_surface = None
    /\ ipc = "idle"
    /\ e_surface = None /\ deepcopy_e_surface = None /\ e = None
    /\ alpha = None /\ beta = None /\ io = 0 /\ n_pass = 0
    /\ output_dict = None /\ pairing = {}

InitReadHessian ==
    /\ fn = "read_hessian"
    /\ \E n \in 1..MaxN :
          hessian_data_file \in [1..n -> [1..n -> HessianVals]]
    /\ hessian = None /\ hessian_once = None /\ n_reads = 0
    /\ IdleMitigate /\ IdleDecomposition /\ IdleGreen

\* read_hessian on the file; a further call is given the matrix that the call
\* before it returned
MaxReads == 2

ReadHessian ==
    /\ fn = "read_hessian" /\ n_reads < MaxReads
    /\ hessian' = Symmetrize(IF n_reads = 0 THEN hessian_data_file ELSE hessian)
    /\ hessian_once' = IF n_reads = 0 THEN hessian' ELSE hessian_once
    /\ n_reads' = n_reads + 1
    /\ UNCHANGED <<fn, hessian_data_file, greenVars, mpeVars, mdVars>>

(* ---------------------- mitigate_periodic_effect ---------------------- *)
MaxRep == 2
MaxNatm == 1

\* the non-finite mark np.inf
Inf == -1

\* the integers start, start + step, ... below n: the slice [start::step]
InSlice(x, start, step) == x >= start /\ (x - start) % step = 0

\* the for loop with the second slice started one block early
MaskedIdx_EarlyLastBlock(n, natm, rep_z) ==
    LET step == natm * 3 * rep_z * 2
    IN  {x \in 0..(n - 1) :
            \E io_ \in 0..(natm * 3 - 1) :
                \/ InSlice(x, io_, step)
                \/ InSlice(x, io_ + natm * 3 * (rep_z * 2 - 2), step)}

\* the rows (and columns) of hessian the for loop sets to np.inf (0-based)
MaskedIdx(n, natm, rep_z) ==
    LET step == natm * 3 * rep_z * 2
    IN  {x \in 0..(n - 1) :
            \E io_ \in 0..(natm * 3 - 1) :
                \/ InSlice(x, io_, step)
                \/ InSlice(x, io_ + natm * 3 * (rep_z * 2 - 1), step)}

\* the lattice points set to np.inf (0-based)
MaskedPoints(n, rep_z) ==
    {x \in 0..(n - 1) : InSlice(x, 0, 2 * rep_z) \/ InSlice(x, 2 * rep_z - 1, 2 * rep_z)}

Iota(n) == [i \in 1..n |-> i - 1]

\* the finite input Hessian: the entry of row r, column c (0-based) holds the
\* finite value r * n + c, which names its place
HessianOfSize(n) == [r \in 1..n |-> [c \in 1..n |-> (r - 1) * n + (c - 1)]]

MaskHessian(H, masked) ==
    [r \in 1..Len(H) |-> [c \in 1..Len(H) |->
        IF (r - 1) \in masked \/ (c - 1) \in masked THEN Inf ELSE H[r][c]]]

\* A[~(np.isinf(A).all(axis=1))] for A given by its rows R, its columns K and
\* its entries ent(r, k): the rows not entirely np.inf
NotAllInf(R, K, ent(_, _)) ==
    SelectSeq(R, LAMBDA r : ~(\A n \in 1..Len(K) : ent(r, K[n]) = Inf))

mitigate_periodic_effect(H, natm, rep) ==
    LET n == Len(H)
        masked == MaskedIdx(n, natm, rep[3])
        Hm == MaskHessian(H, masked)
        npoints == rep[1] * rep[2] * 2 * rep[3]
        hsn_rows == NotAllInf(Iota(n), Iota(n), LAMBDA r, c : Hm[r + 1][c + 1])
        hsn_cols == NotAllInf(Iota(n), hsn_rows, LAMBDA c, r : Hm[r + 1][c + 1])
    IN  [hessian    |-> Hm,
         hsn_matrix |-> [i \in 1..Len(hsn_rows) |-> [j \in 1..Len(hsn_cols) |->
                            Hm[hsn_rows[i] + 1][hsn_cols[j] + 1]]],
         ncols      |-> Len(hsn_cols),
         lattice_points |-> SelectSeq(Iota(npoints),
                                LAMBDA x : x \notin MaskedPoints(npoints, rep[3]))]

InitMitigate ==
    /\ fn = "mitigate_periodic_effect"
    /\ \E r0 \in 1..MaxRep, r1 \in 1..MaxRep, r2 \in 1..MaxRep, m \in 1..MaxNatm :
          /\ mpe_args = [rep |-> <<r0, r1, r2>>, natm_per_unitcell |-> m]
          /\ mpe_hessian = HessianOfSize(3 * m * r0 * r1 * 2 * r2)
    /\ mpe_return = None
    /\ IdleReadHessian /\ IdleDecomposition /\ IdleGreen

MitigatePeriodicEffect ==
    /\ fn = "mitigate_periodic_effect" /\ mpe_return = None
    /\ LET out == mitigate_periodic_effect(mpe_hessian, mpe_args.natm_per_unitcell,
                                           mpe_args.rep)
       IN  /\ mpe_hessian' = out.hessian
           /\ mpe_return' = [hsn_matrix |-> out.hsn_matrix, ncols |-> out.ncols,
                             lattice_points |-> out.lattice_points]
    /\ UNCHANGED <<fn, greenVars, rhVars, mpe_args, mdVars>>

(* ------------------------ matrix_decomposition ------------------------ *)
MaxRepMd == 3
MaxIdx == 3
MaxBlock == 2
MaxNatmMd == 1

f_idx == << <<0, 0, 0>>, <<0, -1, 0>>, <<0, 1, 0>>, <<-1, 0, 0>>, <<1, 0, 0>>,
            <<0, -1, 1>>, <<0, 1, 1>>, <<-1, 0, 1>>, <<1, 0, 1>> >>

Hsn_keys == <<"H0", "H1", "H2", "H3", "H4", "T1", "T2", "T3", "T4">>

\* elements_idx with rep[1] in the place of rep[0]
elements_idx_RepY(block_indices, rep, i) ==
    (block_indices[3] + f_idx[i][3] - 1)
    + ((block_indices[2] + f_idx[i][2] - 1) * rep[2] + block_indices[1] + f_idx[i][1] - 1)
      * 2 * rep[3]

\* elements_idx[i]; block_indices and rep are 1-based tuples here
elements_idx(block_indices, rep, i) ==
    (block_indices[3] + f_idx[i][3] - 1)
    + ((block_indices[2] + f_idx[i][2] - 1) * rep[1] + block_indices[1] + f_idx[i][1] - 1)
      * 2 * rep[3]

Max(a, b) == IF a > b THEN a ELSE b

\* the indices (0-based) that the slice [start:stop] selects on an axis of
\* length n: a negative bound counts from the end, and both are clipped
PySlice(n, start, stop) ==
    LET clip(i) == IF i < 0 THEN Max(i + n, 0) ELSE Min(i, n)
        lo == clip(start)
        hi == clip(stop)
    IN  [i \in 1..Max(hi - lo, 0) |-> lo + i - 1]

\* the dict returned; a block is the view of hsn_matrix on its rows and columns
matrix_decomposition(nrows, blk_size, block_indices, rep, natm) ==
    [i \in 1..9 |->
        Item(Hsn_keys[i],
             [rows |-> PySlice(nrows, natm * 3 * elements_idx(block_indices, rep, 1),
                               natm * 3 * (elements_idx(block_indices, rep, 1) + blk_size)),
              cols |-> PySlice(nrows, natm * 3 * elements_idx(block_indices, rep, i),
                               natm * 3 * (elements_idx(block_indices, rep, i) + blk_size))])]

InitDecomposition ==
    /\ fn = "matrix_decomposition"
    /\ \E r0 \in 1..MaxRepMd, r1 \in 1..MaxRepMd, r2 \in 1..MaxRepMd,
          i \in 1..MaxIdx, j \in 1..MaxIdx, k \in 1..MaxIdx,
          bs \in 1..MaxBlock, m \in 1..MaxNatmMd :
          md_args = [hsn_rows |-> 3 * m * r0 * r1 * 2 * r2, block_size |-> bs,
                     block_indices |-> <<i, j, k>>, rep |-> <<r0, r1, r2>>,
                     natm_per_unitcell |-> m]
    /\ Hsn = None
    /\ IdleReadHessian /\ IdleMitigate /\ IdleGreen

MatrixDecomposition ==
    /\ fn = "matrix_decomposition" /\ Hsn = None
    /\ Hsn' = matrix_decomposition(md_args.hsn_rows, md_args.block_size,
                                   md_args.block_indices, md_args.rep,
                                   md_args.natm_per_unitcell)
    /\ UNCHANGED <<fn, greenVars, rhVars, mpeVars, md_args>>

(* ------------------------- surface_green_func ------------------------- *)
Sq(omega_val) == RoundDiv(omega_val * omega_val, Scale)

\* Z = omega_val ** 2 * (1 + 1j * delta_o) * np.eye(...)
Z(omega_val, delta_o) == MatScale(CMul(C(Sq(omega_val), 0), C(Scale, delta_o)), Eye)

\* one pass of the while loop body
BodyStep(st) ==
    LET a_term == MatMul(MatInv(st.e), st.alpha)
        b_term == MatMul(MatInv(st.e), st.beta)
    IN  [e_surface |-> MatAdd(st.e_surface, MatMul(st.alpha, b_term)),
         e         |-> MatAdd(st.e, MatAdd(MatMul(st.beta, a_term), MatMul(st.alpha, b_term))),
         alpha     |-> MatMul(st.alpha, a_term),
         beta      |-> MatMul(st.beta, b_term)]

\* the break condition of the loop
LoopExit(e_surf, dc_e_surf, io_val) ==
    NormBelowTol(e_surf, dc_e_surf) \/ io_val > IterCap

g_surf(omega_val, e_surf, Hsn_bulk) ==
    MatSub(MatSub(MatScale(C(Sq(omega_val), 0), Eye), Hsn_bulk.Hsn_fourier),
           MatMul(MatMul(Hsn_bulk.Hopping_fourier, MatInv(e_surf)),
                  ConjT(Hsn_bulk.Hopping_fourier)))

\* dict(map(lambda x, y: (x[0], g_surf(omega_val, x[1], y[1])), a.items(), b.items()))
GSurfMap(omega_val, e_surf_dict, bulk_dict) ==
    LET pairs == [n \in 1..ZipLen(e_surf_dict, bulk_dict) |->
                     Item(e_surf_dict[n].key,
                          g_surf(omega_val, e_surf_dict[n].val, bulk_dict[n].val))]
        build[n \in 0..Len(pairs)] ==
            IF n = 0 THEN <<>> ELSE DictSet(build[n - 1], pairs[n].key, pairs[n].val)
    IN  build[Len(pairs)]

Lead == IF pc = "right_e" THEN "right" ELSE "left"
CurBulk == IF pc = "right_e" THEN right_hsn_bulk ELSE left_hsn_bulk
CurSurface == IF pc = "right_e" THEN right_hsn_surface ELSE left_hsn_surface

InitGreen ==
    /\ fn = "surface_green_func"
    /\ \E ml \in Materials, mr \in Materials,
          bl \in ItemOrders, br \in ItemOrders, sl \in ItemOrders, sr \in ItemOrders :
          /\ left_hsn_bulk = BulkDict(ml, bl)
          /\ left_hsn_surface = SurfDict(ml, sl)
          /\ right_hsn_bulk = BulkDict(mr, br)
          /\ right_hsn_surface = SurfDict(mr, sr)
    /\ \E lo \in OmegaEnds, hi \in OmegaEnds, num \in 1..MaxOmegaNum :
          omega = Linspace(lo, hi, num)
    /\ delta \in Deltas
    /\ pc = "right_e" /\ oi = 1 /\ pos = 1
    /\ right_e_surface = <<>> /\ left_e_surface = <<>>
    /\ ipc = "idle"
    /\ e_surface = None /\ deepcopy_e_surface = None /\ e = None
    /\ alpha = None /\ beta = None /\ io = 0 /\ n_pass = 0
    /\ output_dict = <<>>
    /\ pairing = {}
    /\ IdleReadHessian /\ IdleMitigate /\ IdleDecomposition

\* iter_func with alpha and beta kept from the run before it, when there is one
CallIterFunc_StaleHopping ==
    /\ fn = "surface_green_func"
    /\ pc \in {"right_e", "left_e"} /\ ipc = "idle"
    /\ pos <= ZipLen(CurBulk, CurSurface)
    /\ LET x == CurBulk[pos]
           y == CurSurface[pos]
           es == MatSub(Z(omega[oi], delta), x.val.Hsn_fourier)
       IN  /\ e_surface' = es
           /\ deepcopy_e_surface' = es
           /\ e' = es
           /\ alpha' = IF alpha = None THEN y.val.Hopping_fourier ELSE alpha
           /\ beta' = IF beta = None THEN ConjT(y.val.Hopping_fourier) ELSE beta
           /\ pairing' = pairing \cup {<<Lead, x.key, y.key>>}
    /\ io' = 1 /\ n_pass' = 0
    /\ ipc' = "body"
    /\ UNCHANGED <<fn, rhVars, mpeVars, mdVars, greenArgs, pc, oi, pos, right_e_surface,
                   left_e_surface, output_dict>>

\* the map calls iter_func(Z, x[1], y[1]) on the next pair of items
CallIterFunc ==
    /\ fn = "surface_green_func"
    /\ pc \in {"right_e", "left_e"} /\ ipc = "idle"
    /\ pos <= ZipLen(CurBulk, CurSurface)
    /\ LET x == CurBulk[pos]
           y == CurSurface[pos]
           es == MatSub(Z(omega[oi], delta), x.val.Hsn_fourier)
       IN  /\ e_surface' = es
           /\ deepcopy_e_surface' = es
           /\ e' = es
           /\ alpha' = y.val.Hopping_fourier
           /\ beta' = ConjT(y.val.Hopping_fourier)
           /\ pairing' = pairing \cup {<<Lead, x.key, y.key>>}
    /\ io' = 1 /\ n_pass' = 0
    /\ ipc' = "body"
    /\ UNCHANGED <<fn, rhVars, mpeVars, mdVars, greenArgs, pc, oi, pos, right_e_surface, left_e_surface,
                   output_dict>>

LoopBody ==
    /\ fn = "surface_green_func" /\ ipc = "body"
    /\ LET nx == BodyStep([e_surface |-> e_surface, e |-> e, alpha |-> alpha, beta |-> beta])
       IN  /\ e_surface' = nx.e_surface
           /\ e' = nx.e
           /\ alpha' = nx.alpha
           /\ beta' = nx.beta
    /\ n_pass' = Min(n_pass + 1, PassCap)
    /\ ipc' = "test"
    /\ UNCHANGED <<fn, rhVars, mpeVars, mdVars, greenArgs, pc, oi, pos, right_e_surface, left_e_surface,
                   deepcopy_e_surface, io, output_dict, pairing>>

LoopTest ==
    /\ fn = "surface_green_func" /\ ipc = "test"
    /\ IF LoopExit(e_surface, deepcopy_e_surface, io)
       THEN ipc' = "exit" /\ UNCHANGED deepcopy_e_surface
       ELSE ipc' = "body" /\ deepcopy_e_surface' = e_surface
    /\ UNCHANGED <<fn, rhVars, mpeVars, mdVars, greenArgs, pc, oi, pos, right_e_surface, left_e_surface,
                   e_surface, e, alpha, beta, io, n_pass, output_dict, pairing>>

\* after the loop: io += 1, return e_surface; the map yields (x[0], e_surface)
IterReturn ==
    /\ fn = "surface_green_func" /\ ipc = "exit"
    /\ io' = io + 1
    /\ IF pc = "right_e"
       THEN /\ right_e_surface' = DictSet(right_e_surface, CurBulk[pos].key, e_surface)
            /\ UNCHANGED left_e_surface
       ELSE /\ left_e_surface' = DictSet(left_e_surface, CurBulk[pos].key, e_surface)
            /\ UNCHANGED right_e_surface
    /\ pos' = pos + 1
    /\ ipc' = "idle"
    /\ UNCHANGED <<fn, rhVars, mpeVars, mdVars, greenArgs, pc, oi, e_surface, deepcopy_e_surface, e, alpha, beta,
                   n_pass, output_dict, pairing>>

\* right_e_surface is complete: the map over the left lead starts
EndRightE ==
    /\ fn = "surface_green_func"
    /\ pc = "right_e" /\ ipc = "idle"
    /\ pos > ZipLen(right_hsn_bulk, right_hsn_surface)
    /\ pc' = "left_e" /\ pos' = 1
    /\ UNCHANGED <<fn, rhVars, mpeVars, mdVars, greenArgs, oi, right_e_surface, left_e_surface, ipc, iterVars,
                   output_dict, pairing>>

\* left_e_surface is complete: g_surf of both leads, stored under the frequency
ReturnGSurf ==
    /\ fn = "surface_green_func"
    /\ pc = "left_e" /\ ipc = "idle"
    /\ pos > ZipLen(left_hsn_bulk, left_hsn_surface)
    /\ output_dict' = DictSet(output_dict, omega[oi],
           [left_g_surface  |-> GSurfMap(omega[oi], left_e_surface, left_hsn_bulk),
            right_g_surface |-> GSurfMap(omega[oi], right_e_surface, right_hsn_bulk)])
    /\ pc' = "stored"
    /\ UNCHANGED <<fn, rhVars, mpeVars, mdVars, greenArgs, oi, pos, right_e_surface, left_e_surface, ipc, iterVars,
                   pairing>>

\* the next frequency of the sweep, or the return of output_dict
NextOmega ==
    /\ fn = "surface_green_func" /\ pc = "stored"
    /\ IF oi < Len(omega)
       THEN /\ oi' = oi + 1 /\ pos' = 1 /\ pc' = "right_e"
            /\ right_e_surface' = <<>> /\ left_e_surface' = <<>>
            /\ pairing' = {}
       ELSE /\ pc' = "returned"
            /\ UNCHANGED <<oi, pos, right_e_surface, left_e_surface, pairing>>
    /\ UNCHANGED <<fn, rhVars, mpeVars, mdVars, greenArgs, ipc, iterVars, output_dict>>

Init == InitReadHessian \/ InitMitigate \/ InitDecomposition \/ InitGreen

NextGreen ==
    \/ CallIterFunc
    \/ LoopBody
    \/ LoopTest
    \/ IterReturn
    \/ EndRightE
    \/ ReturnGSurf
    \/ NextOmega

Next ==
    \/ ReadHessian
    \/ MitigatePeriodicEffect
    \/ MatrixDecomposition
    \/ CallIterFunc
    \/ LoopBody
    \/ LoopTest
    \/ IterReturn
    \/ EndRightE
    \/ ReturnGSurf
    \/ NextOmega

Spec == Init /\ [][Next]_vars

\* the interpreter runs the solver without pause: a step that can be taken is taken
FairSpec == Spec /\ WF_vars(NextGreen)

(* ------------------- claims about surface_green_func ------------------ *)
InGreen == fn = "surface_green_func"

BulkOf(lead) == IF lead = "right" THEN right_hsn_bulk ELSE left_hsn_bulk
SurfaceOf(lead) == IF lead = "right" THEN right_hsn_surface ELSE left_hsn_surface
ESurfaceOf(lead) == IF lead = "right" THEN right_e_surface ELSE left_e_surface
GSurfaceOf(out, lead) == IF lead = "right" THEN out.right_g_surface ELSE out.left_g_surface
Leads == {"left", "right"}

IsZeroMat(A) == \A i \in 1..Dim : A[i] = C(0, 0)

\* C1: every decimation run terminates: once iter_func is entered, its loop
\* stops (at the latest when the iteration count exceeds the cap of 5000) and
\* iter_func returns.
C1_IterFuncReturns == (InGreen /\ ipc # "idle") ~> (ipc = "idle")

C4_GSurfaceFormula ==
    (InGreen /\ pc = "stored") =>
        \A lead \in Leads :
            LET g == GSurfaceOf(Lookup(output_dict, omega[oi]), lead)
            IN  \A n \in 1..Len(g) :
                    LET hop == SurfaceOf(lead)[n].val.Hopping_fourier
                    IN  g[n].val =
                            MatSub(MatSub(Z(omega[oi], delta), BulkOf(lead)[n].val.Hsn_fourier),
                                   MatMul(MatMul(hop, MatInv(ESurfaceOf(lead)[n].val)),
                                          ConjT(hop)))

\* slack, in units, allowed to a rounded product that should be the identity
InvSlack == 5

IsInverseOf(G, M) ==
    \A i \in 1..Dim :
        LET p == CMul(G[i], M[i])
        IN  p.fin /\ Abs(p.re - Scale) <= InvSlack /\ Abs(p.im) <= InvSlack

\* C5: with all hopping blocks zero the decimation leaves its loop after
\* exactly one pass, and the g_surface returned is the inverse of Z - H0.
C5_ZeroHoppingInverse ==
    /\ (InGreen /\ ipc = "exit" /\ IsZeroMat(CurSurface[pos].val.Hopping_fourier))
           => n_pass = 1
    /\ (InGreen /\ pc = "stored") =>
           \A lead \in Leads :
               LET g == GSurfaceOf(Lookup(output_dict, omega[oi]), lead)
               IN  \A n \in 1..Len(g) :
                       (/\ IsZeroMat(SurfaceOf(lead)[n].val.Hopping_fourier)
                        /\ IsZeroMat(BulkOf(lead)[n].val.Hopping_fourier))
                       => IsInverseOf(g[n].val,
                              MatSub(Z(omega[oi], delta), BulkOf(lead)[n].val.Hsn_fourier))

\* most passes of a decimation that the reference evaluation follows
FuelPasses == 12

\* The value iter_func returns for one point taken alone: the loop run from
\* the point's own inputs.
IterFuncAlone(Zm, Hsn_bulk, Hsn_surface) ==
    LET es0 == MatSub(Zm, Hsn_bulk.Hsn_fourier)
        run[n \in 0..FuelPasses] ==
            IF n = 0
            THEN [e_surface |-> es0, e |-> es0, alpha |-> Hsn_surface.Hopping_fourier,
                  beta |-> ConjT(Hsn_surface.Hopping_fourier), dc |-> es0, out |-> FALSE]
            ELSE LET prev == run[n - 1]
                     nx == BodyStep(prev)
                 IN  IF prev.out THEN prev
                     ELSE [e_surface |-> nx.e_surface, e |-> nx.e, alpha |-> nx.alpha,
                           beta |-> nx.beta, dc |-> nx.e_surface,
                           out |-> LoopExit(nx.e_surface, prev.dc, 1)]
    IN  run[FuelPasses].e_surface

GSurfAlone(omega_val, Hsn_bulk, Hsn_surface) ==
    g_surf(omega_val, IterFuncAlone(Z(omega_val, delta), Hsn_bulk, Hsn_surface), Hsn_bulk)

C9_ValuesIndependent ==
    (InGreen /\ pc \in {"stored", "returned"}) =>
        \A m \in 1..Len(output_dict) : \A lead \in Leads :
            LET g == GSurfaceOf(output_dict[m].val, lead)
            IN  \A n \in 1..Len(g) :
                    g[n].val = GSurfAlone(output_dict[m].key, BulkOf(lead)[n].val,
                                          SurfaceOf(lead)[n].val)

\* C9: decimation runs share no mutable state: no step changes the four input
\* FourierBlockSets, and the value stored for a (wavevector, frequency, lead)
\* point is the value that point yields evaluated alone, whatever the sweep
\* evaluated before it.
C9_NoSharedState == [][greenArgs' = greenArgs]_vars /\ []C9_ValuesIndependent

\* a sweep of two frequencies in descending order has returned, with two
\* wavevectors evaluated for each lead
C9_Witness ==
    /\ InGreen /\ pc = "returned"
    /\ Len(output_dict) = 2 /\ omega[1] > omega[2]
    /\ \A lead \in Leads : Len(GSurfaceOf(output_dict[2].val, lead)) = 2

\* C10: for input mappings with the same key set, the returned mapping of a
\* lead has exactly one entry per wavevector index of the bulk input, and the
\* entry under index k is computed from the bulk and the surface record of
\* that same index k.
C10_PairedByIndex ==
    (InGreen /\ pc = "stored") =>
        \A lead \in Leads :
            Keys(BulkOf(lead)) = Keys(SurfaceOf(lead)) =>
                LET g == GSurfaceOf(Lookup(output_dict, omega[oi]), lead)
                IN  /\ Len(g) = Len(BulkOf(lead))
                    /\ Keys(g) = Keys(BulkOf(lead))
                    /\ \A p \in pairing : p[1] = lead => p[2] = p[3]

(* ----------------------- claims about read_hessian -------------------- *)
IsSymmetric(A) == \A i \in 1..Len(A) : \A j \in 1..Len(A) : A[i][j] = A[j][i]

\* C7: the symmetrization of read_hessian is idempotent and its result is
\* exactly symmetric: every matrix it returns is symmetric, and applied to a
\* matrix it returned it returns that matrix.
C7_SymmetrizeIdempotent ==
    (fn = "read_hessian" /\ n_reads >= 1) =>
        /\ IsSymmetric(hessian)
        /\ hessian = hessian_once

\* the symmetrization was applied twice, the first time to an asymmetric matrix
C7_Witness ==
    /\ fn = "read_hessian" /\ n_reads >= 2
    /\ ~IsSymmetric(hessian_data_file)

(* ----------------- claims about mitigate_periodic_effect -------------- *)
\* C6: the hsn_matrix returned is square with 3.m.(r0.r1.2.r2 - 2.r0.r1) rows,
\* and holds the input Hessian without the rows and columns of the unit-cell
\* blocks at positions 0 and 2.r2 - 1 modulo 2.r2, and with all others.
C6_EdgeLayersRemoved ==
    (fn = "mitigate_periodic_effect" /\ mpe_return # None) =>
        LET m == mpe_args.natm_per_unitcell
            r == mpe_args.rep
            n == 3 * m * r[1] * r[2] * 2 * r[3]
            kept == SelectSeq(Iota(n),
                        LAMBDA x : ((x \div (3 * m)) % (2 * r[3])) \notin {0, 2 * r[3] - 1})
            out == mpe_return.hsn_matrix
        IN  /\ Len(out) = 3 * m * (r[1] * r[2] * 2 * r[3] - 2 * r[1] * r[2])
            /\ mpe_return.ncols = Len(out)
            /\ Len(kept) = Len(out)
            /\ \A i \in 1..Len(out) :
                   /\ Len(out[i]) = Len(out)
                   /\ \A j \in 1..Len(out) : out[i][j] = kept[i] * n + kept[j]

\* the call has returned a matrix that is not empty
C6_Witness ==
    /\ fn = "mitigate_periodic_effect" /\ mpe_return # None
    /\ mpe_args.rep[3] >= 2 /\ mpe_args.rep[1] >= 2
    /\ Len(mpe_return.hsn_matrix) > 0

(* ------------------- claims about matrix_decomposition ---------------- *)
\* the stencil offset of each key, and the flat index of the offset cell, as
\* the claims state them
StencilOf(key) ==
    CASE key = "H0" -> <<0, 0, 0>>  [] key = "H1" -> <<0, -1, 0>>
      [] key = "H2" -> <<0, 1, 0>>  [] key = "H3" -> <<-1, 0, 0>>
      [] key = "H4" -> <<1, 0, 0>>  [] key = "T1" -> <<0, -1, 1>>
      [] key = "T2" -> <<0, 1, 1>>  [] key = "T3" -> <<-1, 0, 1>>
      [] key = "T4" -> <<1, 0, 1>>

FlatIndex(key) ==
    LET a == md_args.block_indices[1] + StencilOf(key)[1] - 1
        b == md_args.block_indices[2] + StencilOf(key)[2] - 1
        c == md_args.block_indices[3] + StencilOf(key)[3] - 1
    IN  c + (b * md_args.rep[1] + a) * 2 * md_args.rep[3]

TotalBlocks == md_args.hsn_rows \div (3 * md_args.natm_per_unitcell)

BlockInRange(key) ==
    FlatIndex(key) >= 0 /\ FlatIndex(key) + md_args.block_size <= TotalBlocks

AllInRange == \A n \in 1..9 : BlockInRange(Hsn_keys[n])

Returned == fn = "matrix_decomposition" /\ Hsn # None

\* C3: matrix_decomposition returns no BlockSet (it fails with a bounds error)
\* when the block range of some stencil offset is not inside [0, total_blocks).
C3_BoundsError == Returned => AllInRange

\* the indices first, first + 1, ..., first + count - 1
Run(first, count) == [i \in 1..count |-> first + i - 1]

\* C8: for in-range block indices the dict returned has the 9 keys H0..H4,
\* T1..T4 in this order, and the entry of a key is the square sub-matrix of
\* 3.natm.block_size rows that start at the flat index of the reference cell
\* and columns that start at the flat index of the key's stencil cell.
C8_BlockSet ==
    (Returned /\ AllInRange) =>
        /\ Len(Hsn) = 9
        /\ \A n \in 1..9 :
               LET w == 3 * md_args.natm_per_unitcell
                   key == <<"H0", "H1", "H2", "H3", "H4", "T1", "T2", "T3", "T4">>[n]
               IN  /\ Hsn[n].key = key
                   /\ Hsn[n].val.rows = Run(w * FlatIndex("H0"), w * md_args.block_size)
                   /\ Hsn[n].val.cols = Run(w * FlatIndex(key), w * md_args.block_size)

\* a BlockSet was returned for in-range block indices, away from the origin
C8_Witness == Returned /\ AllInRange /\ FlatIndex("H0") > 0

====
